---- MODULE Spec2Model ----
(***************************************************************************)
(* A model of webserver.py: the RealUrlExtractor hierarchy (DouYu,         *)
(* Bilibili, HuYa), its self-rescheduling refresh Timer, the process-wide  *)
(* registry processor_maps and the dispatcher serviceWithRate.             *)
(*                                                                         *)
(* Python values are modelled as records of one shape (kind, keys, key, n) *)
(* so that None, the string 'None', a dict and a URL can be compared.      *)
(* The provider clients (DouYu, BiliBili, huya) and requests.get are the   *)
(* environment: what they return or raise is drawn from small sets.        *)
(* Time is the integer number of seconds read by datetime.now().           *)
(***************************************************************************)
EXTENDS Integers, Sequences, FiniteSets, TLC

VARIABLES
    ext,                    \* the extractor objects, by object identity
    processor_maps,         \* provider -> (room -> extractor), line 212
    auto_refresh_interval,  \* the module global, lines 213 and 312
    timers,                 \* the threading.Timer objects, by identity
    lock,                   \* RealUrlExtractor.lock: 0 free, else the holder
    req,                    \* the request workers: position and locals
    now,                    \* datetime.now(), in seconds
    crosHeaders             \* the module global dict, lines 209-211

vars == <<ext, processor_maps, auto_refresh_interval, timers, lock, req, now,
          crosHeaders>>

----------------------------------------------------------------------------
(* Bounds of the model                                                     *)

NumWorkers == 2      \* concurrent request workers
MaxInst == 2         \* extractor objects that can be constructed
MaxTimers == 3       \* Timer objects alive at once
MaxCdn == 2          \* longest CDN-endpoint list
MaxUrls == 3         \* longest variant-URL list
MaxTime == 240       \* the clock stops advancing here
MaxIndex == 4        \* cdn_index is not incremented beyond this
TickLen == 120       \* seconds per step of the clock

(* Program constants                                                       *)

VariantTtl == 120             \* line 133
DatetimeMin == -2000000000    \* datetime.min, far below every clock value
DefaultInterval == 7200       \* line 213

Workers == 1..NumWorkers
InstIds == 1..MaxInst
TimerIds == 1..MaxTimers

Providers == {"douyu", "bilibili", "huya"}
Rooms == {"55"}
RefreshIntervals == {0, DefaultInterval}

NoSel == "<None>"             \* bit_rate is None (route without selector)
HttpSelectors == {NoSel, "refresh", "switch_cdn", "900p"}
Selectors == HttpSelectors \cup {"", "4000p"}

\* The selectors tried on an extractor of each class: Bilibili ignores the
\* selector, only DouYu tests it for emptiness.
SelectorsOf(provider) ==
    CASE provider = "douyu" -> Selectors
      [] provider = "bilibili" -> {NoSel, "refresh", "900p"}
      [] provider = "huya" -> {NoSel, "refresh", "switch_cdn"}
      [] OTHER -> {NoSel}

\* The candidate maps the clients are made to return, by their key sets.
DouYuMaps ==
    {{"flv", "900p"}, {"2000p", "900p", "4000p"}, {"900p"}, {"4000p"}}
BilibiliMaps == {{"hls_url", "flv_url"}, {"flv_url"}, {}}

----------------------------------------------------------------------------
(* Python values                                                           *)

V(kind, keys, key, n) == [kind |-> kind, keys |-> keys, key |-> key, n |-> n]

None == V("None", {}, "", 0)
StrNone == V("str", {}, "None", 0)          \* the string 'None'
Raise == V("raise", {}, "", 0)              \* the call raised
Dict(S) == V("dict", S, "", 0)              \* a candidate map with keys S
Entry(m, k) == V("url", m.keys, k, 0)       \* m[k]
Infos(n) == V("infos", {}, "", n)           \* live_url_infos with n CDNs
HlsUrl(i) == V("url", {}, "hls_url", i)     \* the hls_url of CDN i
UrlList(n) == V("list", {}, "", n)          \* a list of n variant URLs
Variant(l, i) == V("url", {}, "variant", i) \* l[i]

\* list[i] in Python: a negative index counts from the end; -1 stands for
\* IndexError.
PyIndex(len, i) ==
    IF 0 <= i /\ i < len THEN i
    ELSE IF i < 0 /\ 0 - len <= i THEN len + i
    ELSE -1

\* What the provider client can answer to the resolution call of a refresh:
\* DouYu(room).get_real_url(), BiliBili(room).get_real_url(),
\* huya.update_live_url_info().
ClientOutcomes(provider) ==
    CASE provider = "douyu" -> {Raise, None} \cup {Dict(S) : S \in DouYuMaps}
      [] provider = "bilibili" -> {Raise, None} \cup {Dict(S) : S \in BilibiliMaps}
      [] OTHER -> {Raise} \cup {Infos(n) : n \in 0..MaxCdn}

\* What huya.get_real_url(bit_rate) can answer, whatever the bit_rate.
VariantOutcomes == {Raise} \cup {UrlList(n) : n \in 0..MaxUrls}

\* What requests.get can answer: a status code, or 0 for an exception.
FetchOutcomes == {0, 200, 403, 404}

----------------------------------------------------------------------------
(* The extractor object                                                    *)

NoExt ==
    [provider |-> "", room |-> "", real_url |-> None,
     last_valid_real_url |-> None, auto_refresh_interval |-> 0,
     last_refresh_time |-> DatetimeMin, refresh_timer |-> 0,
     cdn_index |-> 0, live_url_infos |-> 0, last_real_urls |-> None,
     last_get_real_url_time |-> DatetimeMin, failed |-> FALSE]

\* RealUrlExtractor.__init__ and HuYaRealUrlExtractor.__init__. The Timer made
\* by __init__ is never started: refresh_timer = 0 stands for it. failed is
\* history: the latest refresh round failed after an earlier success.
NewExt(provider, room, interval) ==
    [NoExt EXCEPT !.provider = provider, !.room = room,
                  !.auto_refresh_interval = interval,
                  !.cdn_index = IF provider = "huya" THEN -1 ELSE 0]

\* _is_url_valid of the three classes.
IsUrlValid(provider, url) ==
    IF provider = "huya" THEN url # None
    ELSE url # None /\ url # StrNone

\* The resolution call of _extract_real_url (lines 111, 158-161, 187-190) for
\* an outcome that DouYu/Bilibili turn into a value, or that HuYa's client
\* returned.
ExtResolve(e, outcome) ==
    IF e.provider = "huya" THEN [e EXCEPT !.live_url_infos = outcome.n]
    ELSE [e EXCEPT !.real_url = IF outcome = Raise THEN StrNone ELSE outcome]

\* HuYa lines 112-118: the index is reset when past the end, then the hls_url
\* at that index becomes real_url.
HuYaSelect(e) ==
    LET cdn_count == e.live_url_infos
        idx == IF e.cdn_index >= cdn_count THEN 0 ELSE e.cdn_index
    IN [e EXCEPT !.cdn_index = idx,
                 !.real_url = IF cdn_count > 0
                              THEN HlsUrl(PyIndex(cdn_count, idx))
                              ELSE None]

\* RealUrlExtractor._extract_real_url, lines 80-87.
ExtBase(e, t) ==
    LET valid == IsUrlValid(e.provider, e.real_url)
    IN [e EXCEPT !.last_valid_real_url = IF valid THEN e.real_url ELSE @,
                 !.real_url = IF ~valid /\ e.last_valid_real_url # None
                              THEN e.last_valid_real_url ELSE @,
                 !.last_refresh_time = t,
                 !.failed = ~valid /\ e.last_valid_real_url # None]

RefreshInterval_AlwaysFull(interval, failover) == <<interval, 1>>

\* reset_refresh_timer lines 63-66: the delay as the fraction <<num, den>>.
RefreshInterval(interval, failover) ==
    IF failover THEN <<interval, 2>> ELSE <<interval, 1>>

----------------------------------------------------------------------------
(* Timers                                                                  *)

NoTimer ==
    [st |-> "free", inst |-> 0, interval |-> <<0, 1>>, seen |-> None,
     failover |-> FALSE]

\* Timer.cancel(): a timer that has not fired yet never fires; anything else
\* is left alone. 0 is the never-started Timer of __init__.
Cancel(tm, t) ==
    IF t # 0 /\ tm[t].st = "pending" THEN [tm EXCEPT ![t].st = "cancelled"] ELSE tm

\* Timer objects nothing refers to any more are forgotten.
Collect(tm, ex) ==
    [t \in TimerIds |->
        IF tm[t].st \in {"cancelled", "finished"}
           /\ \A i \in InstIds : ex[i].refresh_timer # t
        THEN NoTimer ELSE tm[t]]

FreeTimers == {t \in TimerIds : timers[t].st = "free"}
FreshTimer == CHOOSE t \in FreeTimers : \A u \in FreeTimers : t <= u

----------------------------------------------------------------------------
(* Rendering: the part of get_real_url after the forced refresh            *)

\* The result of a call: a value, or the exception it raised.
Ret(value, exc) == [value |-> value, exc |-> exc]

DouYuRender_FirstKey(real_url, sel) ==
    IF ~IsUrlValid("douyu", real_url) THEN Ret(None, "")
    ELSE IF "flv" \in real_url.keys THEN Ret(Entry(real_url, "flv"), "")
    ELSE IF "2000p" \in real_url.keys THEN Ret(Entry(real_url, "2000p"), "")
    ELSE IF "900p" \in real_url.keys THEN Ret(Entry(real_url, "900p"), "")
    ELSE Ret(None, "KeyError")

\* DouYuRealUrlExtractor.get_real_url, lines 170-183.
DouYuRender(real_url, sel) ==
    LET bit_rate == IF sel = "refresh" THEN NoSel ELSE sel
    IN IF ~IsUrlValid("douyu", real_url) THEN Ret(None, "")
       ELSE IF bit_rate = NoSel \/ bit_rate = ""
       THEN IF "flv" \in real_url.keys THEN Ret(Entry(real_url, "flv"), "")
            ELSE IF "2000p" \in real_url.keys THEN Ret(Entry(real_url, "2000p"), "")
            ELSE IF "900p" \in real_url.keys THEN Ret(Entry(real_url, "900p"), "")
            ELSE Ret(None, "KeyError")
       ELSE IF bit_rate \in real_url.keys THEN Ret(Entry(real_url, bit_rate), "")
       ELSE Ret(None, "")

\* BilibiliRealUrlExtractor.get_real_url, lines 199-207.
BilibiliRender(real_url, sel) ==
    IF ~IsUrlValid("bilibili", real_url) THEN Ret(None, "")
    ELSE IF "hls_url" \in real_url.keys THEN Ret(Entry(real_url, "hls_url"), "")
    ELSE IF "flv_url" \in real_url.keys THEN Ret(Entry(real_url, "flv_url"), "")
    ELSE Ret(None, "KeyError")

\* Line 133: the variant list is fetched when there is none or the last fetch
\* is more than 120 seconds old.
NeedsFetch_NoTtl(e, t) == TRUE

NeedsFetch(e, t) ==
    e.last_real_urls = None \/ t - e.last_get_real_url_time > VariantTtl

HuYaPick_NoWrap(e, urls) ==
    IF urls.n > 0
    THEN <<e, Ret(Variant(urls, PyIndex(urls.n, IF e.cdn_index >= urls.n
                                               THEN urls.n - 1
                                               ELSE e.cdn_index)), "")>>
    ELSE <<e, Ret(None, "")>>

\* Lines 140-144: the entry at cdn_index, which is reset when past the end.
HuYaPick(e, urls) ==
    IF urls.n > 0
    THEN LET idx == IF e.cdn_index >= urls.n THEN 0 ELSE e.cdn_index
         IN <<[e EXCEPT !.cdn_index = idx],
              Ret(Variant(urls, PyIndex(urls.n, idx)), "")>>
    ELSE <<e, Ret(None, "")>>

\* HuYaRealUrlExtractor.get_real_url, lines 127-144, for the answer `fetched`
\* of huya.get_real_url (used only when the list is fetched): the new object
\* and the result.
HuYaRender(e, sel, fetched, t) ==
    LET e1 == IF sel = "switch_cdn" THEN [e EXCEPT !.cdn_index = @ + 1] ELSE e
    IN IF NeedsFetch(e1, t)
       THEN IF fetched = Raise THEN <<e1, Ret(None, "ProviderError")>>
            ELSE HuYaPick([e1 EXCEPT !.last_real_urls = fetched,
                                     !.last_get_real_url_time = t], fetched)
       ELSE HuYaPick(e1, e1.last_real_urls)

----------------------------------------------------------------------------
(* Request workers                                                         *)

NoResp == [status |-> 0, to |-> None, body |-> "", headers |-> << >>]

\* pc: where the worker is. mode: "http" inside serviceWithRate, "direct" for
\* a get_real_url call on an extractor object. cli: what the provider client
\* answers if this request makes the resolution call (forgotten when it makes
\* none). called: whether it made that call. fetch: whether the call fetched
\* the variant list. upstream: what requests.get answered.
Idle ==
    [pc |-> "idle", mode |-> "", provider |-> "", room |-> "", sel |-> NoSel,
     inst |-> 0, cli |-> None, ret |-> Ret(None, ""), failover |-> FALSE,
     seen |-> None, called |-> FALSE, fetch |-> FALSE, pre |-> NoExt,
     upstream |-> -1,
     resp |-> NoResp]


EmptyMap == [x \in {} |-> 0]

\* The instance a worker operates on: the extractor named by its call, or, in
\* serviceWithRate, the registry entry read at the point of use.
InstOf(w) ==
    IF req[w].mode = "http" THEN processor_maps[req[w].provider][req[w].room]
    ELSE req[w].inst

\* A get_real_url call made directly on extractor i.
Call(w, i, sel, cli) ==
    /\ req[w].pc = "idle"
    /\ ext[i].provider # ""
    /\ sel \in SelectorsOf(ext[i].provider)
    /\ cli \in ClientOutcomes(ext[i].provider)
    /\ req' = [req EXCEPT ![w] = [Idle EXCEPT !.pc = "gru", !.mode = "direct",
                                              !.provider = ext[i].provider,
                                              !.room = ext[i].room,
                                              !.sel = sel, !.inst = i,
                                              !.cli = cli]]
    /\ UNCHANGED <<ext, processor_maps, auto_refresh_interval, timers, lock,
                   now, crosHeaders>>

ForcesRefresh_WhenInvalid(e, sel) ==
    ~IsUrlValid(e.provider, e.real_url) \/ sel = "refresh"

\* Line 99: get_real_url refreshes first when nothing is resolved yet or the
\* selector is 'refresh'.
ForcesRefresh(e, sel) == e.real_url = None \/ sel = "refresh"

\* RealUrlExtractor.get_real_url, lines 98-100 (entered from line 125, 168,
\* 197; in serviceWithRate the receiver is read from the registry).
Gru(w) ==
    /\ req[w].pc = "gru"
    /\ LET i == InstOf(w)
           forced == ForcesRefresh(ext[i], req[w].sel)
       IN req' = [req EXCEPT ![w].inst = i,
                             ![w].called = forced,
                             ![w].cli = IF forced THEN @ ELSE None,
                             ![w].pc = IF forced THEN "resolve" ELSE "render"]
    /\ UNCHANGED <<ext, processor_maps, auto_refresh_interval, timers, lock,
                   now, crosHeaders>>

\* The provider call of _extract_real_url made by get_real_url (no lock):
\* lines 111, 158-161, 187-190. HuYa's update_live_url_info may raise, which
\* ends get_real_url.
Resolve(w) ==
    /\ req[w].pc = "resolve"
    /\ LET i == req[w].inst
           e == ext[i]
       IN IF e.provider = "huya" /\ req[w].cli = Raise
          THEN /\ ext' = [ext EXCEPT ![i].failed = e.last_valid_real_url # None]
               /\ req' = [req EXCEPT ![w].pc = "got",
                                     ![w].ret = Ret(None, "ProviderError")]
          ELSE /\ ext' = [ext EXCEPT ![i] = ExtResolve(e, req[w].cli)]
               /\ req' = [req EXCEPT ![w].pc = "base"]
    /\ UNCHANGED <<processor_maps, auto_refresh_interval, timers, lock, now,
                   crosHeaders>>

\* The object as the base _extract_real_url finds it: HuYa lines 112-118 run
\* first.
Selected(e) == IF e.provider = "huya" THEN HuYaSelect(e) ELSE e

\* Lines 112-118 and 80-87, then reset_refresh_timer up to the cancel of
\* line 62.
Base(w) ==
    /\ req[w].pc = "base"
    /\ LET i == req[w].inst
           e == Selected(ext[i])
       IN /\ ext' = [ext EXCEPT ![i] = ExtBase(e, now)]
          /\ req' = [req EXCEPT
                ![w].seen = e.real_url,
                ![w].failover = ~IsUrlValid(e.provider, e.real_url),
                ![w].pc = IF e.auto_refresh_interval > 0 THEN "arm" ELSE "render"]
          /\ timers' = IF e.auto_refresh_interval > 0
                       THEN Cancel(timers, e.refresh_timer) ELSE timers
    /\ UNCHANGED <<processor_maps, auto_refresh_interval, lock, now, crosHeaders>>

\* Lines 63-68: a new Timer with the chosen delay replaces refresh_timer and
\* is started. seen is history: the resolution the round judged.
StartTimer(tm, t, i, interval, failover, seen) ==
    [tm EXCEPT ![t] = [st |-> "pending", inst |-> i,
                       interval |-> RefreshInterval(interval, failover),
                       seen |-> seen, failover |-> FALSE]]

Arm(w) ==
    /\ req[w].pc = "arm"
    /\ FreeTimers # {}
    /\ LET i == req[w].inst
           t == FreshTimer
       IN /\ ext' = [ext EXCEPT ![i].refresh_timer = t]
          /\ timers' = Collect(StartTimer(timers, t, i,
                                          ext[i].auto_refresh_interval,
                                          req[w].failover, req[w].seen), ext')
    /\ req' = [req EXCEPT ![w].pc = "render"]
    /\ UNCHANGED <<processor_maps, auto_refresh_interval, lock, now, crosHeaders>>

\* The rest of the provider's get_real_url: lines 127-144, 170-183, 199-207.
\* pre and fetch are history: the object before the step, and whether
\* huya.get_real_url was called.
Render(w) ==
    /\ req[w].pc = "render"
    /\ LET i == req[w].inst
           e == ext[i]
           sel == req[w].sel
           rate == IF sel = "refresh" THEN NoSel ELSE sel
       IN CASE e.provider = "douyu" ->
                 /\ req' = [req EXCEPT ![w].pc = "got", ![w].pre = e,
                                       ![w].ret = DouYuRender(e.real_url, sel)]
                 /\ UNCHANGED ext
            [] e.provider = "bilibili" ->
                 /\ req' = [req EXCEPT ![w].pc = "got", ![w].pre = e,
                                       ![w].ret = BilibiliRender(e.real_url, sel)]
                 /\ UNCHANGED ext
            [] OTHER ->
                 /\ rate = "switch_cdn" => e.cdn_index < MaxIndex
                 /\ LET e1 == IF rate = "switch_cdn"
                              THEN [e EXCEPT !.cdn_index = @ + 1] ELSE e
                        fetch == NeedsFetch(e1, now)
                    IN \E fetched \in (IF fetch THEN VariantOutcomes
                                       ELSE {Raise}) :
                          LET r == HuYaRender(e, rate, fetched, now)
                          IN /\ ext' = [ext EXCEPT ![i] = r[1]]
                             /\ req' = [req EXCEPT ![w].pc = "got",
                                                   ![w].pre = e,
                                                   ![w].fetch = fetch,
                                                   ![w].ret = r[2]]
    /\ UNCHANGED <<processor_maps, auto_refresh_interval, timers, lock, now,
                   crosHeaders>>

\* The direct call returns to its caller.
Return(w) ==
    /\ req[w].pc = "got"
    /\ req[w].mode = "direct"
    /\ req' = [req EXCEPT ![w] = Idle]
    /\ UNCHANGED <<ext, processor_maps, auto_refresh_interval, timers, lock,
                   now, crosHeaders>>

----------------------------------------------------------------------------
(* The background refresh: Timer.run calls refresh_real_url, lines 70-76   *)

\* The started Timer's delay runs out.
TimerFire(t) ==
    /\ timers[t].st = "pending"
    /\ timers' = [timers EXCEPT ![t].st = "acquire"]
    /\ UNCHANGED <<ext, processor_maps, auto_refresh_interval, lock, req, now,
                   crosHeaders>>

\* Line 71.
BgAcquire(t) ==
    /\ timers[t].st = "acquire"
    /\ lock = 0
    /\ lock' = t
    /\ timers' = [timers EXCEPT ![t].st = "resolve"]
    /\ UNCHANGED <<ext, processor_maps, auto_refresh_interval, req, now,
                   crosHeaders>>

BgAfterRaise_EndsThread == "finished"

\* Lines 74-75: an exception of _extract_real_url is swallowed and the thread
\* goes on to release the lock.
BgAfterRaise == "release"

\* Line 73 up to the provider call.
BgResolve(t, outcome) ==
    /\ timers[t].st = "resolve"
    /\ LET i == timers[t].inst
           e == ext[i]
       IN /\ outcome \in ClientOutcomes(e.provider)
          /\ IF e.provider = "huya" /\ outcome = Raise
             THEN /\ ext' = [ext EXCEPT ![i].failed = e.last_valid_real_url # None]
                  /\ timers' = [timers EXCEPT ![t].st = BgAfterRaise]
             ELSE /\ ext' = [ext EXCEPT ![i] = ExtResolve(e, outcome)]
                  /\ timers' = [timers EXCEPT ![t].st = "base"]
    /\ UNCHANGED <<processor_maps, auto_refresh_interval, lock, req, now,
                   crosHeaders>>

BgBase(t) ==
    /\ timers[t].st = "base"
    /\ LET i == timers[t].inst
           e == Selected(ext[i])
           tm == [timers EXCEPT
                    ![t].seen = e.real_url,
                    ![t].failover = ~IsUrlValid(e.provider, e.real_url),
                    ![t].st = IF e.auto_refresh_interval > 0 THEN "arm"
                              ELSE "release"]
       IN /\ ext' = [ext EXCEPT ![i] = ExtBase(e, now)]
          /\ timers' = IF e.auto_refresh_interval > 0
                       THEN Cancel(tm, e.refresh_timer) ELSE tm
    /\ UNCHANGED <<processor_maps, auto_refresh_interval, lock, req, now,
                   crosHeaders>>

BgArm(t) ==
    /\ timers[t].st = "arm"
    /\ FreeTimers # {}
    /\ LET i == timers[t].inst
           u == FreshTimer
       IN /\ ext' = [ext EXCEPT ![i].refresh_timer = u]
          /\ timers' = Collect(StartTimer([timers EXCEPT ![t].st = "release"],
                                          u, i, ext[i].auto_refresh_interval,
                                          timers[t].failover, timers[t].seen),
                               ext')
    /\ UNCHANGED <<processor_maps, auto_refresh_interval, lock, req, now,
                   crosHeaders>>

\* Line 76; the thread ends.
BgRelease(t) ==
    /\ timers[t].st = "release"
    /\ lock' = 0
    /\ timers' = Collect([timers EXCEPT ![t].st = "finished"], ext)
    /\ UNCHANGED <<ext, processor_maps, auto_refresh_interval, req, now,
                   crosHeaders>>

\* Time passes.
Tick ==
    /\ now + TickLen <= MaxTime
    /\ now' = now + TickLen
    /\ UNCHANGED <<ext, processor_maps, auto_refresh_interval, timers, lock,
                   req, crosHeaders>>

----------------------------------------------------------------------------
(* The dispatcher: serviceWithRate, lines 215-295                          *)

\* A request arrives: GET /<provider>/<room>[/<bit_rate>]. The extractors of
\* different providers share no field, so the traffic of one run is taken to
\* be for one known provider, with requests for unknown providers in between.
Service(w, provider, room, sel, cli) ==
    /\ req[w].pc = "idle"
    /\ provider \in Providers => DOMAIN processor_maps \subseteq {provider}
    /\ \A v \in Workers :
          req[v].provider \in Providers => req[v].provider = provider
    /\ sel \in SelectorsOf(provider) \cap HttpSelectors
    /\ cli \in (IF provider \in Providers THEN ClientOutcomes(provider) ELSE {None})
    /\ req' = [req EXCEPT ![w] = [Idle EXCEPT !.pc = "route", !.mode = "http",
                                              !.provider = provider,
                                              !.room = room, !.sel = sel,
                                              !.cli = cli]]
    /\ UNCHANGED <<ext, processor_maps, auto_refresh_interval, timers, lock,
                   now, crosHeaders>>

\* dict.update: the given entries are written into the dict.
MergeHeaders(headers, extra) == extra @@ headers

NotFoundHeaders ==
    ("Content-type" :> "text/html; charset=gb2312") @@ ("Content-Length" :> "9")

ManifestHeaders(body) ==
    ("Content-type" :> "application/vnd.apple.mpegurl")
        @@ ("Content-Length" :> body)

\* Lines 290-295: the 404 response. dict.update returns None, so the response
\* gets no extra headers while crosHeaders itself grows. response.text is
\* taken to build the response from the encoded body it is given.
NotFound(w) ==
    /\ crosHeaders' = MergeHeaders(crosHeaders, NotFoundHeaders)
    /\ req' = [req EXCEPT ![w].pc = "done",
                          ![w].resp = [status |-> 404, to |-> None,
                                       body |-> "Not Found",
                                       headers |-> EmptyMap]]

\* Lines 218-224, 237-243, 255-261: the branch on the provider, the provider's
\* map and the test for the room.
Route(w) ==
    /\ req[w].pc = "route"
    /\ LET p == req[w].provider
           r == req[w].room
       IN IF p \notin Providers
          THEN /\ NotFound(w)
               /\ UNCHANGED processor_maps
          ELSE LET pm == IF p \in DOMAIN processor_maps THEN processor_maps
                         ELSE (p :> EmptyMap) @@ processor_maps
               IN /\ processor_maps' = pm
                  /\ req' = [req EXCEPT ![w].pc = IF r \in DOMAIN pm[p]
                                                  THEN "gru" ELSE "create"]
                  /\ UNCHANGED crosHeaders
    /\ UNCHANGED <<ext, auto_refresh_interval, timers, lock, now>>

FreeInsts == {i \in InstIds : ext[i].provider = ""}
FreshInst == CHOOSE i \in FreeInsts : \A j \in FreeInsts : i <= j

\* Line 225 reads self.auto_refresh_interval in a function that has no self:
\* NameError before the DouYu extractor is constructed. Lines 244 and 262 read
\* the global.
ConstructorArgRaises(provider) == provider = "douyu"

\* Lines 225, 244, 262: construct the extractor and store it under the room.
Create(w) ==
    /\ req[w].pc = "create"
    /\ LET p == req[w].provider
           r == req[w].room
       IN IF ConstructorArgRaises(p)
          THEN /\ req' = [req EXCEPT ![w].pc = "got",
                                     ![w].ret = Ret(None, "NameError")]
               /\ UNCHANGED <<ext, processor_maps>>
          ELSE /\ FreeInsts # {}
               /\ ext' = [ext EXCEPT ![FreshInst] =
                                        NewExt(p, r, auto_refresh_interval)]
               /\ processor_maps' =
                      [processor_maps EXCEPT ![p] = (r :> FreshInst) @@ @]
               /\ req' = [req EXCEPT ![w].pc = "gru"]
    /\ UNCHANGED <<auto_refresh_interval, timers, lock, now, crosHeaders>>

ExceptException_OnlyProvider(exc) == exc = "ProviderError"

\* `except Exception` (lines 235, 253, 288) catches every exception the
\* pipeline raises; KeyboardInterrupt and SystemExit are not among them.
ExceptException(exc) ==
    exc \in {"NameError", "KeyError", "IndexError", "TypeError", "ProviderError"}

\* Lines 227-236, 246-254, 264-265 and 288-295: what the handler does with the
\* result of get_real_url.
Handle(w) ==
    /\ req[w].pc = "got"
    /\ req[w].mode = "http"
    /\ LET r == req[w].ret
       IN IF r.exc # ""
          THEN IF ExceptException(r.exc)
               THEN NotFound(w)
               ELSE /\ req' = [req EXCEPT ![w].pc = "escaped"]
                    /\ UNCHANGED crosHeaders
          ELSE IF r.value = None
          THEN NotFound(w)
          ELSE IF req[w].provider = "huya"
          THEN /\ req' = [req EXCEPT ![w].pc = "manifest"]
               /\ UNCHANGED crosHeaders
          ELSE /\ req' = [req EXCEPT ![w].pc = "done",
                                     ![w].resp = [status |-> 301, to |-> r.value,
                                                  body |-> "",
                                                  headers |-> crosHeaders]]
               /\ UNCHANGED crosHeaders
    /\ UNCHANGED <<ext, processor_maps, auto_refresh_interval, timers, lock, now>>

InvalidatesCache_Any4xx(status_code) == status_code >= 400

\* Line 281.
InvalidatesCache(status_code) == status_code = 403

\* Lines 266-286: the manifest is fetched and rewritten with base_url(); any
\* exception there gives the fallback manifest and advances cdn_index; a 403
\* resets the variant cache's timestamp. The extractor is read from the
\* registry at each use.
Manifest(w, upstream) ==
    /\ req[w].pc = "manifest"
    /\ upstream \in FetchOutcomes
    /\ LET i == InstOf(w)
           e == ext[i]
           fetchRaised == upstream = 0
           baseRaised == ~fetchRaised /\ PyIndex(e.live_url_infos, e.cdn_index) = -1
           fallback == fetchRaised \/ baseRaised
           status_code == IF fetchRaised THEN 200 ELSE upstream
           body == IF fallback THEN "fallback" ELSE "rewritten"
       IN /\ fallback => e.cdn_index < MaxIndex
          /\ ext' = [ext EXCEPT
                ![i].cdn_index = IF fallback THEN @ + 1 ELSE @,
                ![i].last_get_real_url_time =
                    IF InvalidatesCache(status_code) THEN DatetimeMin ELSE @]
          /\ crosHeaders' = MergeHeaders(crosHeaders, ManifestHeaders(body))
          /\ req' = [req EXCEPT ![w].pc = "done", ![w].inst = i,
                                ![w].pre = e, ![w].upstream = upstream,
                                ![w].resp = [status |-> status_code, to |-> None,
                                             body |-> body,
                                             headers |-> EmptyMap]]
    /\ UNCHANGED <<processor_maps, auto_refresh_interval, timers, lock, now>>

\* The response has been sent.
Finish(w) ==
    /\ req[w].pc = "done"
    /\ req' = [req EXCEPT ![w] = Idle]
    /\ UNCHANGED <<ext, processor_maps, auto_refresh_interval, timers, lock,
                   now, crosHeaders>>

----------------------------------------------------------------------------
(* Specifications                                                          *)

InitHeaders ==
    ("Access-Control-Allow-Origin" :> "*")
        @@ ("Access-Control-Allow-Methods" :> "GET")
        @@ ("Access-Control-Allow-Headers"
                :> "Content-Type, Content-Length, Authorization")

InitCommon ==
    /\ auto_refresh_interval \in RefreshIntervals
    /\ timers = [t \in TimerIds |-> NoTimer]
    /\ lock = 0
    /\ req = [w \in Workers |-> Idle]
    /\ now = 0
    /\ crosHeaders = InitHeaders

\* The server after start-up: no extractor yet.
Init ==
    /\ InitCommon
    /\ ext = [i \in InstIds |-> NoExt]
    /\ processor_maps = EmptyMap

AnyOutcome ==
    ClientOutcomes("douyu") \cup ClientOutcomes("bilibili")
        \cup ClientOutcomes("huya")

\* No thread is inside an operation.
Quiet ==
    /\ \A w \in Workers : req[w].pc = "idle"
    /\ \A t \in TimerIds :
          timers[t].st \in {"free", "pending", "cancelled", "finished"}

\* The steps of worker w inside serviceWithRate, after the request arrived.
HandlerStep(w) ==
    \/ Route(w)
    \/ Create(w)
    \/ Gru(w)
    \/ Resolve(w)
    \/ Base(w)
    \/ Arm(w)
    \/ Render(w)
    \/ Handle(w)
    \/ \E u \in FetchOutcomes : Manifest(w, u)

\* The steps of the Timer threads, one background refresh at a time.
TimerStep ==
    \E t \in TimerIds :
        \/ Quiet /\ TimerFire(t)
        \/ BgAcquire(t)
        \/ \E o \in AnyOutcome : BgResolve(t, o)
        \/ BgBase(t)
        \/ BgArm(t)
        \/ BgRelease(t)

Next ==
    \/ \E p \in Providers \cup {"other"}, r \in Rooms, sel \in HttpSelectors,
          cli \in AnyOutcome : Quiet /\ Service(1, p, r, sel, cli)
    \/ HandlerStep(1)
    \/ Finish(1)
    \/ TimerStep

\* The server as Sanic runs it: the handlers are coroutines without an await,
\* so one request is handled at a time; a background refresh runs between two
\* requests.
Spec == Init /\ [][Next]_vars

\* The answers of the provider clients tried with parallel workers.
RaceOutcomes == {Raise, Dict({"flv_url"}), Infos(1)}

NextWorkers ==
    \E w \in Workers :
        \/ \E p \in Providers, r \in Rooms, cli \in RaceOutcomes :
              Service(w, p, r, NoSel, cli)
        \/ HandlerStep(w)

\* The server with a pool of request workers that run in parallel, each
\* taking one of a burst of simultaneous requests; the burst is over before
\* a refresh timer runs out.
SpecWorkers == Init /\ [][NextWorkers]_vars

\* One extractor object, constructed directly, used by one caller at a time.
InitSeq ==
    /\ InitCommon
    /\ \E p \in Providers :
          ext = [i \in InstIds |->
                    IF i = 1 THEN NewExt(p, "55", auto_refresh_interval)
                    ELSE NoExt]
    /\ processor_maps = EmptyMap

SeqNext ==
    \/ \E sel \in Selectors, cli \in AnyOutcome : Quiet /\ Call(1, 1, sel, cli)
    \/ Gru(1)
    \/ Resolve(1)
    \/ Base(1)
    \/ Arm(1)
    \/ Render(1)
    \/ Return(1)
    \/ TimerStep
    \/ Quiet /\ Tick

\* Sequential use of one extractor: refreshes and get_real_url calls one
\* after another.
SpecSeq == InitSeq /\ [][SeqNext]_vars

----------------------------------------------------------------------------
(* Threads: a Timer thread's refresh running against get_real_url          *)

\* Lines 82-87 for the verdict `valid` that line 81 reached earlier: the
\* fields are read again when the assignments run.
ExtKeep(e, valid, t) ==
    [e EXCEPT !.last_valid_real_url = IF valid THEN e.real_url ELSE @,
              !.real_url = IF ~valid /\ e.last_valid_real_url # None
                           THEN e.last_valid_real_url ELSE @,
              !.last_refresh_time = t,
              !.failed = ~valid /\ e.last_valid_real_url # None]

\* Lines 112-118 and 80-81 in the caller's thread: the resolution is selected
\* and judged.
Judge(w) ==
    /\ req[w].pc = "base"
    /\ LET i == req[w].inst
           e == Selected(ext[i])
       IN /\ ext' = [ext EXCEPT ![i] = e]
          /\ req' = [req EXCEPT
                ![w].seen = e.real_url,
                ![w].failover = ~IsUrlValid(e.provider, e.real_url),
                ![w].pc = "keep"]
    /\ UNCHANGED <<processor_maps, auto_refresh_interval, timers, lock, now,
                   crosHeaders>>

\* Lines 82-88 and 60-62 in the caller's thread: the assignments that follow
\* the verdict, then the cancel of reset_refresh_timer.
Keep(w) ==
    /\ req[w].pc = "keep"
    /\ LET i == req[w].inst
           e == ext[i]
       IN /\ ext' = [ext EXCEPT ![i] = ExtKeep(e, ~req[w].failover, now)]
          /\ req' = [req EXCEPT
                ![w].pc = IF e.auto_refresh_interval > 0 THEN "arm" ELSE "render"]
          /\ timers' = IF e.auto_refresh_interval > 0
                       THEN Cancel(timers, e.refresh_timer) ELSE timers
    /\ UNCHANGED <<processor_maps, auto_refresh_interval, lock, now, crosHeaders>>

\* The same two steps on a Timer thread.
BgJudge(t) ==
    /\ timers[t].st = "base"
    /\ LET i == timers[t].inst
           e == Selected(ext[i])
       IN /\ ext' = [ext EXCEPT ![i] = e]
          /\ timers' = [timers EXCEPT
                ![t].seen = e.real_url,
                ![t].failover = ~IsUrlValid(e.provider, e.real_url),
                ![t].st = "keep"]
    /\ UNCHANGED <<processor_maps, auto_refresh_interval, lock, req, now,
                   crosHeaders>>

BgKeep(t) ==
    /\ timers[t].st = "keep"
    /\ LET i == timers[t].inst
           e == ext[i]
           tm == [timers EXCEPT
                    ![t].st = IF e.auto_refresh_interval > 0 THEN "arm"
                              ELSE "release"]
       IN /\ ext' = [ext EXCEPT ![i] = ExtKeep(e, ~timers[t].failover, now)]
          /\ timers' = IF e.auto_refresh_interval > 0
                       THEN Cancel(tm, e.refresh_timer) ELSE tm
    /\ UNCHANGED <<processor_maps, auto_refresh_interval, lock, req, now,
                   crosHeaders>>

\* The selectors of the calls made while Timer threads run.
ThreadSelectors == {NoSel, "refresh"}

\* The answers of the provider client tried while threads interleave.
ThreadOutcomes == {Raise, Dict({"flv", "900p"})}

\* One DouYu extractor with the default refresh interval.
InitThreads ==
    /\ InitCommon
    /\ auto_refresh_interval = DefaultInterval
    /\ ext = [i \in InstIds |->
                 IF i = 1 THEN NewExt("douyu", "55", auto_refresh_interval)
                 ELSE NoExt]
    /\ processor_maps = EmptyMap

ThreadsNext ==
    \/ \E sel \in ThreadSelectors, cli \in ThreadOutcomes : Call(1, 1, sel, cli)
    \/ Gru(1)
    \/ Resolve(1)
    \/ Judge(1)
    \/ Keep(1)
    \/ Arm(1)
    \/ Render(1)
    \/ Return(1)
    \/ \E t \in TimerIds :
          \/ TimerFire(t)
          \/ BgAcquire(t)
          \/ \E o \in ThreadOutcomes : BgResolve(t, o)
          \/ BgJudge(t)
          \/ BgKeep(t)
          \/ BgArm(t)
          \/ BgRelease(t)

\* One extractor used by the request thread while its Timer threads run: the
\* threads interleave at the statements of _extract_real_url and
\* reset_refresh_timer.
SpecThreads == InitThreads /\ [][ThreadsNext]_vars

----------------------------------------------------------------------------
(* The lock: background refreshes of two extractors                        *)

\* The answers of the provider clients tried while refreshes contend for the
\* lock: update_live_url_info raises or finds one CDN, DouYu's client raises
\* or returns a map.
LockOutcomes == {Raise, Dict({"flv", "900p"}), Infos(1)}

\* A DouYu and a HuYa extractor with the default refresh interval.
InitLock ==
    /\ InitCommon
    /\ auto_refresh_interval = DefaultInterval
    /\ ext = [i \in InstIds |->
                 IF i = 1 THEN NewExt("douyu", "55", auto_refresh_interval)
                 ELSE IF i = 2 THEN NewExt("huya", "55", auto_refresh_interval)
                 ELSE NoExt]
    /\ processor_maps = EmptyMap

\* No get_real_url call is in progress.
NoCall == \A w \in Workers : req[w].pc = "idle"

\* Calls are made while no refresh runs; the timers fire between calls, also
\* while another Timer thread is running.
LockNext ==
    \/ \E i \in InstIds, sel \in ThreadSelectors, cli \in LockOutcomes :
          Quiet /\ Call(1, i, sel, cli)
    \/ Gru(1)
    \/ Resolve(1)
    \/ Base(1)
    \/ Arm(1)
    \/ Render(1)
    \/ Return(1)
    \/ \E t \in TimerIds :
          \/ NoCall /\ TimerFire(t)
          \/ BgAcquire(t)
          \/ \E o \in LockOutcomes : BgResolve(t, o)
          \/ BgBase(t)
          \/ BgArm(t)
          \/ BgRelease(t)

\* A Timer thread that can run does run, and its provider call returns or
\* raises; a thread waiting in lock.acquire() gets the lock if it is free
\* again and again.
SpecLock ==
    /\ InitLock
    /\ [][LockNext]_vars
    /\ \A t \in TimerIds :
          /\ SF_vars(BgAcquire(t))
          /\ WF_vars(\E o \in LockOutcomes : BgResolve(t, o))
          /\ WF_vars(BgBase(t))
          /\ WF_vars(BgArm(t))
          /\ WF_vars(BgRelease(t))

----------------------------------------------------------------------------
(* Properties                                                              *)

\* A get_real_url call of worker w has just ended, and its rendering part
\* (the code after the forced refresh) has run on the object `pre`.
Rendered(w) == req[w].pc = "got" /\ req[w].pre.provider # ""

IsUrl(ret) == ret.exc = "" /\ ret.value.kind = "url"

\* C1: failover retention, for every provider: once a resolution has
\* succeeded and the latest refresh round has failed, a get_real_url with a
\* selector that is no control word still returns the URL of the last valid
\* resolution: for DouYu and Bilibili the rendering of last_valid_real_url,
\* for HuYa (which was serving a non-empty variant list) a URL, not absent and
\* not an error.
C1_FailoverRetention ==
    \A w \in Workers :
        (/\ Rendered(w)
         /\ req[w].sel \notin {"refresh", "switch_cdn"}
         /\ req[w].pre.failed)
        => CASE req[w].provider = "douyu" ->
                  req[w].ret = DouYuRender(req[w].pre.last_valid_real_url,
                                           req[w].sel)
             [] req[w].provider = "bilibili" ->
                  req[w].ret = BilibiliRender(req[w].pre.last_valid_real_url,
                                              req[w].sel)
             [] OTHER ->
                  (/\ req[w].pre.last_real_urls # None
                   /\ req[w].pre.last_real_urls.n > 0) => IsUrl(req[w].ret)

\* What the code does for the single-CDN providers: there the retention holds.
FailoverRetentionSingleCdn ==
    \A w \in Workers :
        (/\ Rendered(w)
         /\ req[w].provider \in {"douyu", "bilibili"}
         /\ req[w].sel # "refresh"
         /\ req[w].pre.failed)
        => /\ req[w].pre.real_url = req[w].pre.last_valid_real_url
           /\ IsUrlValid(req[w].provider, req[w].pre.real_url)

\* The delay the claim gives a round that judged the resolution `seen`.
BackoffDelay(e, seen) ==
    IF seen = None \/ (e.provider # "huya" /\ seen = StrNone)
    THEN <<e.auto_refresh_interval, 2>>
    ELSE <<e.auto_refresh_interval, 1>>

\* C2: refresh backoff: every timer armed by a completed refresh round has the
\* delay auto_refresh_interval / 2 when the resolution of that round was
\* invalid (even while an earlier valid URL is served) and the full
\* auto_refresh_interval when it was valid; and a get_real_url that forced a
\* refresh leaves such a timer pending.
C2_RefreshBackoff ==
    /\ \A t \in TimerIds :
          timers[t].st = "pending" =>
              timers[t].interval = BackoffDelay(ext[timers[t].inst], timers[t].seen)
    /\ \A w \in Workers :
          (/\ req[w].pc = "render"
           /\ req[w].called
           /\ ext[req[w].inst].auto_refresh_interval > 0)
          => LET e == ext[req[w].inst]
             IN /\ e.refresh_timer # 0
                /\ timers[e.refresh_timer].st = "pending"
                /\ timers[e.refresh_timer].interval = BackoffDelay(e, req[w].seen)

\* A failed round while an earlier valid URL is served has armed the timer
\* with half the interval.
C2_Witness ==
    \E t \in TimerIds :
        /\ timers[t].st = "pending"
        /\ timers[t].interval = <<DefaultInterval, 2>>
        /\ LET e == ext[timers[t].inst]
           IN /\ e.provider = "douyu"
              /\ e.failed
              /\ e.real_url = e.last_valid_real_url
              /\ e.real_url.kind = "dict"

\* C3: the background refresh loop never dies: an extractor whose refresh has
\* been armed once has, whenever no refresh is running, a next refresh
\* scheduled, whatever the provider client did.
C3_RefreshLoopSurvives ==
    \A i \in InstIds :
        (/\ Quiet
         /\ ext[i].auto_refresh_interval > 0
         /\ ext[i].refresh_timer # 0)
        => \E t \in TimerIds : timers[t].st = "pending" /\ timers[t].inst = i

\* C7: HuYa variant cache: a get_real_url made while a variant list is cached
\* and at most 120 seconds after its fetch does not call the provider's
\* variant fetch and leaves list and timestamp alone, whatever its selector;
\* one made more than 120 seconds after the fetch does call it, and when the
\* fetch returns, the list is replaced and the timestamp is the time of the
\* call.
C7_VariantCacheTtl ==
    \A w \in Workers :
        (/\ Rendered(w)
         /\ req[w].provider = "huya"
         /\ req[w].pre.last_real_urls # None)
        => LET pre == req[w].pre
               e == ext[req[w].inst]
           IN IF now - pre.last_get_real_url_time <= 120
              THEN /\ ~req[w].fetch
                   /\ e.last_real_urls = pre.last_real_urls
                   /\ e.last_get_real_url_time = pre.last_get_real_url_time
              ELSE /\ req[w].fetch
                   /\ req[w].ret.exc = "" => e.last_get_real_url_time = now

\* A call with the selector switch_cdn, exactly 120 seconds after the fetch,
\* reuses the cached list.
C7_Witness ==
    \E w \in Workers :
        /\ Rendered(w)
        /\ req[w].provider = "huya"
        /\ req[w].sel = "switch_cdn"
        /\ req[w].pre.last_real_urls # None
        /\ now - req[w].pre.last_get_real_url_time = 120
        /\ ~req[w].fetch
        /\ IsUrl(req[w].ret)

\* A call more than 120 seconds after the fetch has fetched again.
RefetchAfterTtl ==
    \E w \in Workers :
        /\ Rendered(w)
        /\ req[w].provider = "huya"
        /\ req[w].pre.last_real_urls # None
        /\ req[w].pre.last_get_real_url_time = 0
        /\ req[w].fetch
        /\ ext[req[w].inst].last_get_real_url_time = now

Preferred == <<"flv", "2000p", "900p">>
FirstPreferred(m) ==
    LET present == {j \in 1..3 : Preferred[j] \in m.keys}
    IN Preferred[CHOOSE j \in present : \A k \in present : j <= k]

DefaultSelector(sel) == sel \in {NoSel, "", "refresh"}

\* The result the claim names for a valid map m and a selector, where it names
\* one.
PolicyResult(m, sel) ==
    IF DefaultSelector(sel) THEN Ret(Entry(m, FirstPreferred(m)), "")
    ELSE IF sel \in m.keys THEN Ret(Entry(m, sel), "")
    ELSE Ret(None, "")

HasPreferred(m) == m.keys \cap {"flv", "2000p", "900p"} # {}

DouYuRendered(w) ==
    /\ Rendered(w)
    /\ req[w].provider = "douyu"
    /\ req[w].pre.real_url.kind = "dict"

\* C10 as amended: for every valid candidate map and every selector, DouYu's
\* get_real_url returns, for an absent, empty or 'refresh' selector, the flv
\* entry if present, else the 2000p entry, else the 900p entry, provided the
\* map has one of the three, and raises KeyError when it has none; for any
\* other selector it returns the entry under that key, and absent without an
\* error when the key is missing.
C10_DouYuSelectorPolicy ==
    \A w \in Workers :
        DouYuRendered(w)
        => LET m == req[w].pre.real_url
           IN IF DefaultSelector(req[w].sel) /\ ~HasPreferred(m)
              THEN req[w].ret = Ret(None, "KeyError")
              ELSE req[w].ret = PolicyResult(m, req[w].sel)

\* C10 as claimed: every valid map and every selector gives a result without
\* an error: the preferred entry, the entry under the key, or absent.
C10_Original ==
    \A w \in Workers :
        DouYuRendered(w)
        => LET m == req[w].pre.real_url
           IN /\ req[w].ret.exc = ""
              /\ (DefaultSelector(req[w].sel) => HasPreferred(m))
                    => req[w].ret = PolicyResult(m, req[w].sel)

\* The map {flv, 900p} with the selector 900p has given the 900p entry.
C10_Witness ==
    \E w \in Workers :
        /\ DouYuRendered(w)
        /\ req[w].pre.real_url = Dict({"flv", "900p"})
        /\ req[w].sel = "900p"
        /\ req[w].ret = Ret(Entry(Dict({"flv", "900p"}), "900p"), "")

\* The extractor objects constructed for a registry key.
Constructed(p, r) == {i \in InstIds : ext[i].provider = p /\ ext[i].room = r}

\* The worker's request has passed the get-or-create of lines 224-225,
\* 243-244, 261-262.
PastCreate(w) ==
    /\ req[w].mode = "http"
    /\ req[w].provider \in Providers
    /\ req[w].pc \notin {"idle", "route", "create"}

\* C4: registry singleton: for every (provider, room) key and every
\* interleaving of the workers, once a request for the key has passed the
\* get-or-create, exactly one extractor object has ever been constructed for
\* the key, the registry entry is that object, and every request for the key
\* operates on it.
C4_RegistrySingleton ==
    \A p \in Providers, r \in Rooms :
        /\ Cardinality(Constructed(p, r)) <= 1
        /\ \A w \in Workers :
              (PastCreate(w) /\ req[w].provider = p /\ req[w].room = r)
              => /\ Cardinality(Constructed(p, r)) = 1
                 /\ p \in DOMAIN processor_maps
                 /\ r \in DOMAIN processor_maps[p]
                 /\ Constructed(p, r) = {processor_maps[p][r]}
                 /\ req[w].inst # 0 => req[w].inst = processor_maps[p][r]

\* Two simultaneous first requests for one key have each constructed an
\* extractor object.
TwoInstancesForOneKey ==
    \E p \in Providers, r \in Rooms : Cardinality(Constructed(p, r)) = 2

\* The client's answer is a valid candidate map that has the selected entry.
HasSelectedEntry(cli, sel) ==
    /\ cli.kind = "dict"
    /\ (DefaultSelector(sel) => HasPreferred(cli))
    /\ (~DefaultSelector(sel) => sel \in cli.keys)

\* C5: DouYu end to end: a request for provider douyu whose provider client
\* returns a valid candidate map containing the selected entry is answered
\* with a 301 redirect to that entry.
C5_DouYuRedirect ==
    \A w \in Workers :
        (/\ req[w].pc = "done"
         /\ req[w].provider = "douyu"
         /\ HasSelectedEntry(req[w].cli, req[w].sel))
        => /\ req[w].resp.status = 301
           /\ Ret(req[w].resp.to, "") = PolicyResult(req[w].cli, req[w].sel)

NotFoundResponse(resp) == resp.status = 404 /\ resp.body = "Not Found"

\* C6: dispatch failures become 404: no exception escapes serviceWithRate and
\* a finished request has its response; an unknown provider gets 404; for a
\* known provider an absent result of get_real_url, or an exception raised
\* while creating the extractor, resolving or rendering, gets the 404 'Not
\* Found' response.
C6_DispatchFailuresAre404 ==
    \A w \in Workers :
        /\ req[w].pc # "escaped"
        /\ req[w].pc = "done" =>
              /\ req[w].resp.status \in {200, 301, 403, 404}
              /\ req[w].provider \notin Providers => NotFoundResponse(req[w].resp)
              /\ (req[w].ret.exc # "" \/ req[w].ret.value = None)
                    => NotFoundResponse(req[w].resp)
              /\ req[w].resp.status = 301 =>
                    /\ req[w].provider \in {"douyu", "bilibili"}
                    /\ Ret(req[w].resp.to, "") = req[w].ret
                    /\ IsUrl(req[w].ret)

\* A HuYa request whose forced refresh raised in update_live_url_info has
\* been answered 404.
C6_Witness ==
    \E w \in Workers :
        /\ req[w].pc = "done"
        /\ req[w].provider = "huya"
        /\ req[w].ret.exc = "ProviderError"
        /\ req[w].called
        /\ NotFoundResponse(req[w].resp)

\* An exception raised while rendering has been answered 404.
RenderErrorIs404 ==
    \E w \in Workers :
        /\ req[w].pc = "done"
        /\ req[w].provider = "bilibili"
        /\ req[w].ret.exc = "KeyError"
        /\ NotFoundResponse(req[w].resp)

\* C8: a 403 invalidates the HuYa variant cache: a manifest fetch that
\* returned status 403 leaves last_get_real_url_time at datetime.min, any
\* other outcome (another status, an exception) leaves it as it was; and a
\* get_real_url that finds a cached list with that timestamp fetches the
\* variant list again although less than 120 seconds have passed.
C8_ForbiddenInvalidatesCache ==
    \A w \in Workers :
        /\ (req[w].pc = "done" /\ req[w].upstream # -1)
              => ext[req[w].inst].last_get_real_url_time =
                    IF req[w].upstream = 403 THEN DatetimeMin
                    ELSE req[w].pre.last_get_real_url_time
        /\ (/\ Rendered(w)
            /\ req[w].provider = "huya"
            /\ req[w].pre.last_real_urls # None
            /\ req[w].pre.last_get_real_url_time = DatetimeMin)
              => /\ req[w].fetch
                 /\ req[w].ret.exc = "" =>
                       ext[req[w].inst].last_get_real_url_time = now

\* After a 403, with the clock still at the time of the last fetch, a request
\* has fetched the variant list again.
C8_Witness ==
    \E w \in Workers :
        /\ Rendered(w)
        /\ req[w].provider = "huya"
        /\ req[w].pre.last_real_urls # None
        /\ req[w].pre.last_get_real_url_time = DatetimeMin
        /\ req[w].fetch
        /\ ext[req[w].inst].last_get_real_url_time = now
        /\ IsUrl(req[w].ret)

\* A manifest fetch answered 404 has left the timestamp of the cache alone.
OtherStatusKeepsCache ==
    \E w \in Workers :
        /\ req[w].pc = "done"
        /\ req[w].upstream = 404
        /\ ext[req[w].inst].last_get_real_url_time = 0

\* The three CORS headers of lines 209-211 are among `headers`.
HasCors(headers) ==
    /\ {"Access-Control-Allow-Origin", "Access-Control-Allow-Methods",
        "Access-Control-Allow-Headers"} \subseteq DOMAIN headers
    /\ headers["Access-Control-Allow-Origin"] = "*"
    /\ headers["Access-Control-Allow-Methods"] = "GET"
    /\ headers["Access-Control-Allow-Headers"]
          = "Content-Type, Content-Length, Authorization"

\* The response of worker w is the HuYa manifest response.
IsManifestResponse(w) == req[w].pc = "done" /\ req[w].upstream # -1

\* C11: CORS on every response: every response the dispatcher emits (301
\* redirect, HuYa manifest, 404) carries the three CORS headers, and the HuYa
\* manifest response carries the content type application/vnd.apple.mpegurl.
C11_CorsOnEveryResponse ==
    \A w \in Workers :
        req[w].pc = "done"
        => /\ HasCors(req[w].resp.headers)
           /\ IsManifestResponse(w)
                 => /\ "Content-type" \in DOMAIN req[w].resp.headers
                    /\ req[w].resp.headers["Content-type"]
                          = "application/vnd.apple.mpegurl"

\* A 301 redirect has been sent with the three CORS headers.
RedirectHasCors ==
    \E w \in Workers :
        /\ req[w].pc = "done"
        /\ req[w].resp.status = 301
        /\ HasCors(req[w].resp.headers)

\* The manifest fetch of the claim failed: requests.get raised (network error,
\* timeout) or answered a status outside 200..299.
FetchFailed(upstream) == upstream = 0 \/ upstream < 200 \/ upstream > 299

\* C12: manifest fetch fallback: whenever the HuYa manifest fetch fails
\* (exception or non-2xx status) the request is answered, not with the 404
\* 'Not Found' response, with the synthesized manifest and cdn_index is advanced by one; a successful
\* fetch whose manifest was rewritten does not advance cdn_index.
C12_ManifestFallback ==
    \A w \in Workers :
        IsManifestResponse(w)
        => LET e == ext[req[w].inst]
           IN IF FetchFailed(req[w].upstream)
              THEN /\ req[w].resp.body = "fallback"
                   /\ ~NotFoundResponse(req[w].resp)
                   /\ e.cdn_index = req[w].pre.cdn_index + 1
              ELSE req[w].resp.body = "rewritten"
                      => e.cdn_index = req[w].pre.cdn_index

\* requests.get raised: the fallback manifest was sent with status 200 and
\* cdn_index advanced.
FetchExceptionFallsBack ==
    \E w \in Workers :
        /\ IsManifestResponse(w)
        /\ req[w].upstream = 0
        /\ req[w].resp.body = "fallback"
        /\ req[w].resp.status = 200
        /\ ext[req[w].inst].cdn_index = req[w].pre.cdn_index + 1

\* A fetch answered 200 whose rewriting failed in base_url() has advanced
\* cdn_index.
SuccessfulFetchAdvances ==
    \E w \in Workers :
        /\ IsManifestResponse(w)
        /\ req[w].upstream = 200
        /\ ext[req[w].inst].cdn_index = req[w].pre.cdn_index + 1

\* The refresh timers of extractor i that are scheduled and not cancelled.
Outstanding(i) ==
    {t \in TimerIds : timers[t].st = "pending" /\ timers[t].inst = i}

\* C13: at most one outstanding timer per extractor: in every reachable state,
\* under any interleaving of background timer firings and refreshes forced by
\* get_real_url, an extractor has at most one scheduled and not yet cancelled
\* refresh timer.
C13_OneOutstandingTimer ==
    \A i \in InstIds : Cardinality(Outstanding(i)) <= 1

\* A pending timer that the extractor no longer refers to, next to the one it
\* does refer to.
OrphanTimerPending ==
    \E i \in InstIds :
        \E t \in Outstanding(i), u \in Outstanding(i) :
            /\ t # u
            /\ ext[i].refresh_timer = t

\* The executions of _extract_real_url in progress: the request thread between
\* its call at line 100 and the return, and the Timer threads between line 73
\* and the return.
InRefreshBody ==
    {<<"request", w>> : w \in {v \in Workers :
                                  req[v].pc \in {"resolve", "base", "keep", "arm"}}}
        \cup {<<"timer", t>> : t \in {u \in TimerIds :
                                  timers[u].st \in {"resolve", "base", "keep", "arm"}}}

\* C14: global refresh serialization: in every reachable state at most one
\* execution of the refresh body is in progress, whether a background timer
\* or get_real_url started it.
C14_RefreshSerialized == Cardinality(InRefreshBody) <= 1

\* get_real_url is inside the refresh body while a Timer thread holds the lock
\* inside it.
RefreshBesideLockHolder ==
    \E w \in Workers, t \in TimerIds :
        /\ lock = t
        /\ timers[t].st = "base"
        /\ req[w].pc = "base"

\* C16: last_valid_real_url invariant: in every reachable state, races of a
\* background refresh with a forced refresh included, last_valid_real_url is
\* absent or satisfies the provider's validity predicate: never the failure
\* sentinel.
C16_LastValidIsValid ==
    \A i \in InstIds :
        ext[i].provider # ""
        => \/ ext[i].last_valid_real_url = None
           \/ /\ ext[i].last_valid_real_url # StrNone
              /\ IsUrlValid(ext[i].provider, ext[i].last_valid_real_url)

\* C15: HuYa cdn_index bounds: wherever cdn_index has indexed a list, it was
\* within 0 .. length - 1 of that list: the variant list when get_real_url
\* returned an entry (line 143), the CDN list when the manifest proxy called
\* base_url() (line 276), from the construction of the extractor onwards.
C15_CdnIndexInRange ==
    \A w \in Workers :
        /\ (Rendered(w) /\ req[w].provider = "huya" /\ IsUrl(req[w].ret))
              => LET e == ext[req[w].inst]
                 IN 0 <= e.cdn_index /\ e.cdn_index < e.last_real_urls.n
        /\ (IsManifestResponse(w) /\ req[w].upstream # 0)
              => /\ 0 <= req[w].pre.cdn_index
                 /\ req[w].pre.cdn_index < req[w].pre.live_url_infos

\* base_url() was called with cdn_index beyond a non-empty CDN list: its
\* IndexError gave the fallback manifest although the fetch answered 200.
BaseUrlIndexError ==
    \E w \in Workers :
        /\ IsManifestResponse(w)
        /\ req[w].upstream = 200
        /\ req[w].resp.body = "fallback"
        /\ req[w].pre.live_url_infos > 0
        /\ req[w].pre.cdn_index >= req[w].pre.live_url_infos

\* The condition the claim gives for a forced refresh, on the extractor as
\* the call of worker w finds it.
RefreshCondition(w) ==
    ext[req[w].inst].real_url = None \/ req[w].sel = "refresh"

\* The call of worker w is a cached read of a DouYu or Bilibili extractor: it
\* is at or past the test of line 99 and makes no refresh.
CachedRead(w) ==
    /\ req[w].mode = "direct"
    /\ req[w].provider \in {"douyu", "bilibili"}
    /\ \/ req[w].pc = "gru" /\ ~RefreshCondition(w)
       \/ req[w].pc \in {"render", "got"} /\ ~req[w].called

\* A call is about to make the provider call only under the condition, and
\* has skipped the refresh only without it.
ForcedIffCondition ==
    \A w \in Workers :
        /\ req[w].pc = "resolve" => RefreshCondition(w)
        /\ (req[w].pc = "render" /\ ~req[w].called) => ~RefreshCondition(w)

\* No step taken during a cached read changes the extractor, a timer or the
\* lock.
CachedReadFrame ==
    \A w \in Workers :
        CachedRead(w) => /\ ext' = ext
                         /\ timers' = timers
                         /\ lock' = lock

\* C17: get_real_url forces a refresh if and only if real_url is absent or
\* the selector is 'refresh' (so HuYa's switch_cdn does not by itself); for
\* DouYu and Bilibili any other call makes no provider call, takes no lock and
\* leaves real_url, last_valid_real_url, last_refresh_time and the pending
\* timer unchanged.
C17_ForcedRefreshOnly == [](ForcedIffCondition) /\ [][CachedReadFrame]_vars

\* A DouYu call with the selector 900p has returned the cached entry without
\* a provider call, the refresh timer still pending.
C17_Witness ==
    \E w \in Workers :
        /\ Rendered(w)
        /\ CachedRead(w)
        /\ req[w].provider = "douyu"
        /\ req[w].sel = "900p"
        /\ IsUrl(req[w].ret)
        /\ ext[req[w].inst] = req[w].pre
        /\ ext[req[w].inst].refresh_timer # 0
        /\ timers[ext[req[w].inst].refresh_timer].st = "pending"

\* A HuYa call with the selector switch_cdn has returned an entry without a
\* refresh.
SwitchCdnWithoutRefresh ==
    \E w \in Workers :
        /\ Rendered(w)
        /\ req[w].provider = "huya"
        /\ req[w].sel = "switch_cdn"
        /\ ~req[w].called
        /\ IsUrl(req[w].ret)

\* The Timer threads that are between lock.acquire() and lock.release().
Holding(t) == timers[t].st \in {"resolve", "base", "keep", "arm", "release"}

\* The lock is held exactly by a Timer thread that acquired it and has not
\* ended: no finished refresh holds it.
LockHeldByRunningRefresh ==
    /\ lock # 0 => Holding(lock)
    /\ \A t \in TimerIds : Holding(t) => lock = t

NeverResolved(w) ==
    /\ Rendered(w)
    /\ req[w].provider \in {"douyu", "bilibili"}
    /\ req[w].pre.last_valid_real_url = None

\* C19: for DouYu and Bilibili, after a failed resolution with no earlier
\* success real_url holds the failure sentinel 'None' and not the absent
\* value, so get_real_url returns absent, and a later call with a selector
\* other than 'refresh' finds the sentinel and does not call the provider
\* again.
C19_StickySentinel ==
    \A w \in Workers :
        NeverResolved(w) => /\ req[w].pre.real_url = StrNone
                            /\ req[w].ret = Ret(None, "")

\* A call without 'refresh' has found the sentinel left by a provider call
\* that raised, and has returned absent without calling the provider.
SentinelServedWithoutCall ==
    \E w \in Workers :
        /\ NeverResolved(w)
        /\ req[w].sel # "refresh"
        /\ ~req[w].called
        /\ req[w].pre.real_url = StrNone
        /\ req[w].pre.auto_refresh_interval = 0
        /\ req[w].ret = Ret(None, "")

\* C20: the shared CORS header set is constant: handling a request (redirect,
\* HuYa manifest or 404) leaves the process-wide crosHeaders mapping as lines
\* 209-211 made it, so a 301 redirect carries exactly the three CORS headers
\* whatever was served before it.
C20_CorsHeadersConstant ==
    /\ crosHeaders = InitHeaders
    /\ \A w \in Workers :
          (req[w].pc = "done" /\ req[w].resp.status = 301)
          => req[w].resp.headers = InitHeaders

\* A 301 redirect sent after a 404 carries the 404's Content-type and
\* Content-Length beside the CORS headers.
RedirectCarriesNotFoundHeaders ==
    \E w \in Workers :
        /\ req[w].pc = "done"
        /\ req[w].resp.status = 301
        /\ HasCors(req[w].resp.headers)
        /\ "Content-Length" \in DOMAIN req[w].resp.headers
        /\ req[w].resp.headers["Content-Length"] = "9"
        /\ req[w].resp.headers["Content-type"] = "text/html; charset=gb2312"

====
